---- MODULE Spec2Model ----
(***************************************************************************)
(* Model of the e-commerce backend slice: user registration               *)
(* (src/app/crud.py) and the authentication helpers (src/core/auth.py).   *)
(*                                                                         *)
(* Strings of the program (passwords, digests) are sequences of           *)
(* one-character strings, so prefixes and truncation can be computed.     *)
(* A call's outcome is a record: Return(v) or Raise(exc, code, detail).   *)
(***************************************************************************)
EXTENDS Integers, Sequences, FiniteSets, TLC

VARIABLES
    store,      \* committed rows of the users table
    nextId,     \* next value of the users.id sequence
    plain,      \* ghost: id -> the plaintext given to create_user for that row
    sess,       \* per request: position inside create_user and its locals
    now,        \* the clock (datetime.utcnow()), in ticks
    bearer,     \* the token a client holds, with how it was issued (ghost)
    resp        \* outcome of the call made last

vars == <<store, nextId, plain, sess, now, bearer, resp>>

----------------------------------------------------------------------------
(* Outcomes of a call *)

Return(v) == [kind |-> "return", value |-> v]

Raise(exc, code, detail) ==
    [kind |-> "raise", exc |-> exc, status_code |-> code, detail |-> detail]

\* What a caller of the HTTP layer sees of a raised exception.
HTTPException(code, detail) == Raise("HTTPException", code, detail)

NoCall == [op |-> "none"]

----------------------------------------------------------------------------
(* Credential hasher: passlib CryptContext(schemes=["bcrypt"])             *)

\* bcrypt reads at most this many bytes of the secret (72 in bcrypt; scaled
\* down so that passwords longer than the limit fit the model).
BcryptMaxBytes == 2

Salts == {"s1", "s2"}

Min(a, b) == IF a < b THEN a ELSE b

BcryptTruncate(secret) == SubSeq(secret, 1, Min(Len(secret), BcryptMaxBytes))

SchemeIdent(scheme) == IF scheme = "bcrypt" THEN "$2b$" ELSE "$5$"

\* The checksum is a one-way function of (salt, the bytes the scheme reads);
\* it is kept symbolic: equal checksums iff equal salt and equal bytes read.
SchemeChecksum(scheme, secret) ==
    IF scheme = "bcrypt" THEN BcryptTruncate(secret) ELSE secret

SchemeDigest(scheme, secret, salt) ==
    <<SchemeIdent(scheme), salt>> \o SchemeChecksum(scheme, secret)

\* A context of another scheme than the one that verifies.
crud_pwd_context_other_scheme == [schemes |-> <<"sha256_crypt">>]

crud_pwd_context == [schemes |-> <<"bcrypt">>]

auth_pwd_context == [schemes |-> <<"bcrypt">>]

\* CryptContext.hash: the default (first) scheme, a fresh salt.
ContextHash(ctx, secret, salt) == SchemeDigest(ctx.schemes[1], secret, salt)

Identified(ctx, hash) ==
    {i \in 1..Len(ctx.schemes) :
        Len(hash) >= 1 /\ hash[1] = SchemeIdent(ctx.schemes[i])}

\* CryptContext.verify: identify the digest's scheme among the context's
\* schemes (UnknownHashError when none claims it), parse it (ValueError when
\* malformed), recompute and compare.
ContextVerify(ctx, secret, hash) ==
    IF Identified(ctx, hash) = {}
    THEN Raise("UnknownHashError", 500, "hash could not be identified")
    ELSE LET scheme == ctx.schemes[CHOOSE i \in Identified(ctx, hash) : TRUE]
         IN  IF Len(hash) < 2 \/ hash[2] \notin Salts
             THEN Raise("ValueError", 500, "malformed hash")
             ELSE Return(hash = SchemeDigest(scheme, secret, hash[2]))

hash_password(password, salt) == ContextHash(auth_pwd_context, password, salt)

verify_password(plain_password, hashed_password) ==
    ContextVerify(auth_pwd_context, plain_password, hashed_password)

----------------------------------------------------------------------------
(* User store and registration                                             *)

Procs == {"r1", "r2"}

Emails == {"ann@x", "bob@x"}

\* Passwords a registration may carry, and those a login may try.
RegPasswords == {<<"a">>, <<"a", "b", "c">>}

Passwords == RegPasswords \cup {<<"a", "b">>, <<"a", "b", "d">>}

Roles == {"admin", "user"}

DefaultRole == "user"

UserCreate ==
    [email : Emails, password : RegPasswords, first_name : {"F"},
     last_name : {"L"}, phone : {"555"}]

NoUserCreate ==
    [email |-> "", password |-> <<>>, first_name |-> "", last_name |-> "",
     phone |-> ""]

\* User(...): a transient object, no primary key and no column default yet.
User(email, first_name, last_name, password_hash, phone) ==
    [id |-> 0, email |-> email, first_name |-> first_name,
     last_name |-> last_name, password_hash |-> password_hash,
     phone |-> phone, role |-> ""]

NoRow == User("", "", "", <<>>, "")

get_user_by_email(db, email) ==
    IF \E u \in db : u.email = email
    THEN CHOOSE u \in db : u.email = email
    ELSE NoRow

\* The users table's unique constraint on email.
UniqueViolation(db, row) == \E u \in db : u.email = row.email

\* INSERT: the sequence gives the id, the column default gives the role.
Inserted(row, id) == [row EXCEPT !.id = id, !.role = DefaultRole]

IdleSession ==
    [pc |-> "idle", user |-> NoUserCreate, hashed_password |-> <<>>,
     db_user |-> NoRow, ret |-> NoCall]

\* A request enters create_user(db, user).
Call(p) ==
    /\ sess[p].pc = "idle"
    /\ \E user \in UserCreate :
          sess' = [sess EXCEPT ![p] = [@ EXCEPT !.pc = "L12", !.user = user]]
    /\ UNCHANGED <<store, nextId, plain, now, bearer, resp>>

\* crud.py line 12
Hash(p) ==
    /\ sess[p].pc = "L12"
    /\ \E salt \in Salts :
          sess' = [sess EXCEPT ![p] =
                     [@ EXCEPT !.pc = "L13",
                               !.hashed_password =
                                   ContextHash(crud_pwd_context,
                                               sess[p].user.password, salt)]]
    /\ UNCHANGED <<store, nextId, plain, now, bearer, resp>>

\* crud.py lines 13-14: the object is built and put in the session, unflushed.
Add(p) ==
    /\ sess[p].pc = "L13"
    /\ LET u == sess[p].user
       IN  sess' = [sess EXCEPT ![p] =
                      [@ EXCEPT !.pc = "L15",
                                !.db_user = User(u.email, u.first_name,
                                                 u.last_name,
                                                 sess[p].hashed_password,
                                                 u.phone)]]
    /\ UNCHANGED <<store, nextId, plain, now, bearer, resp>>

\* The conflict is caught and the transient object returned.
CommitSwallow(p) ==
    /\ sess[p].pc = "L15"
    /\ IF UniqueViolation(store, sess[p].db_user)
       THEN /\ sess' = [sess EXCEPT ![p] =
                          [@ EXCEPT !.pc = "done",
                                    !.ret = Return(sess[p].db_user)]]
            /\ UNCHANGED <<store, nextId, plain>>
       ELSE /\ store' = store \cup {Inserted(sess[p].db_user, nextId)}
            /\ plain' = plain \cup
                          {[id |-> nextId, password |-> sess[p].user.password]}
            /\ nextId' = nextId + 1
            /\ sess' = [sess EXCEPT ![p] =
                          [@ EXCEPT !.pc = "L16", !.db_user.id = nextId]]
    /\ UNCHANGED <<now, bearer, resp>>

\* db.merge in place of db.add: a conflicting row is overwritten.
CommitUpsert(p) ==
    /\ sess[p].pc = "L15"
    /\ IF UniqueViolation(store, sess[p].db_user)
       THEN LET old == get_user_by_email(store, sess[p].db_user.email)
            IN  /\ store' = (store \ {old}) \cup
                               {[old EXCEPT !.password_hash =
                                               sess[p].db_user.password_hash]}
                /\ plain' = {g \in plain : g.id # old.id} \cup
                              {[id |-> old.id,
                                password |-> sess[p].user.password]}
                /\ sess' = [sess EXCEPT ![p] =
                              [@ EXCEPT !.pc = "L16", !.db_user.id = old.id]]
                /\ UNCHANGED nextId
       ELSE /\ store' = store \cup {Inserted(sess[p].db_user, nextId)}
            /\ plain' = plain \cup
                          {[id |-> nextId, password |-> sess[p].user.password]}
            /\ nextId' = nextId + 1
            /\ sess' = [sess EXCEPT ![p] =
                          [@ EXCEPT !.pc = "L16", !.db_user.id = nextId]]
    /\ UNCHANGED <<now, bearer, resp>>

\* crud.py line 15: the flush sends the INSERT; the unique constraint is
\* decided by the database, atomically; IntegrityError leaves create_user.
Commit(p) ==
    /\ sess[p].pc = "L15"
    /\ IF UniqueViolation(store, sess[p].db_user)
       THEN /\ sess' = [sess EXCEPT ![p] =
                          [@ EXCEPT !.pc = "raised",
                                    !.ret = Raise("IntegrityError", 500,
                                                  "duplicate key")]]
            /\ UNCHANGED <<store, nextId, plain>>
       ELSE /\ store' = store \cup {Inserted(sess[p].db_user, nextId)}
            /\ plain' = plain \cup
                          {[id |-> nextId, password |-> sess[p].user.password]}
            /\ nextId' = nextId + 1
            /\ sess' = [sess EXCEPT ![p] =
                          [@ EXCEPT !.pc = "L16", !.db_user.id = nextId]]
    /\ UNCHANGED <<now, bearer, resp>>

\* crud.py line 16: the object is reloaded from its row.
Refresh(p) ==
    /\ sess[p].pc = "L16"
    /\ sess' = [sess EXCEPT ![p] =
                  [@ EXCEPT !.pc = "L17",
                            !.db_user = CHOOSE u \in store :
                                            u.id = sess[p].db_user.id]]
    /\ UNCHANGED <<store, nextId, plain, now, bearer, resp>>

\* crud.py line 17
ReturnUser(p) ==
    /\ sess[p].pc = "L17"
    /\ sess' = [sess EXCEPT ![p] =
                  [@ EXCEPT !.pc = "done", !.ret = Return(sess[p].db_user)]]
    /\ UNCHANGED <<store, nextId, plain, now, bearer, resp>>

create_user(p) ==
    Call(p) \/ Hash(p) \/ Add(p) \/ Commit(p) \/ Refresh(p) \/ ReturnUser(p)

\* Digests that are not well-formed hashes of the configured scheme: the
\* empty string, a plaintext, a bcrypt prefix with nothing after it.
MalformedDigests == {<<>>, <<"a", "b", "c">>, <<"$2b$">>}

StoredDigests == {u.password_hash : u \in store}

\* A login checks a candidate password against a digest.
VerifyPassword ==
    /\ \E plain_password \in Passwords,
          hashed_password \in StoredDigests \cup MalformedDigests :
          resp' = [op |-> "verify_password", plain_password |-> plain_password,
                   hashed_password |-> hashed_password,
                   result |-> verify_password(plain_password, hashed_password)]
    /\ UNCHANGED <<store, nextId, plain, sess, now, bearer>>

----------------------------------------------------------------------------
(* Configuration (core.config.settings) and the clock                      *)

SECRET_KEY == "primary-secret"

REFRESH_SECRET_KEY == "refresh-secret"

ALGORITHM == "HS256"

\* The clock's resolution, and the last instant the model looks at.
TicksPerSecond == 3

MaxTime == 7

\* timedelta(minutes=1) and timedelta(days=1) in ticks; a minute is scaled
\* down to one second and a day to two minutes.
SecondsPerMinute == 1

MinutesPerDay == 2

Minute == SecondsPerMinute * TicksPerSecond

Day == MinutesPerDay * Minute

ACCESS_TOKEN_EXPIRE_MINUTES == 1

REFRESH_TOKEN_EXPIRE_DAYS == 1

VERIFICATION_TOKEN_EXPIRE_MINUTES == 1

RESET_TOKEN_EXPIRE_MINUTES == 1

\* timegm(dt.utctimetuple()): a datetime as whole seconds since the epoch.
Timegm(t) == t \div TicksPerSecond

----------------------------------------------------------------------------
(* Claims mappings (Python dicts)                                          *)

EmptyDict == [k \in {} |-> 0]

\* d.update({k: v}) / {**d, k: v}
DictUpdate(d, k, v) ==
    [x \in DOMAIN d \cup {k} |-> IF x = k THEN v ELSE d[x]]

None == "None"

\* d.get(k)
DictGet(d, k) == IF k \in DOMAIN d THEN d[k] ELSE None

----------------------------------------------------------------------------
(* Token codec: jose.jwt.encode / jose.jwt.decode                          *)

\* The MAC of header and payload under a key, kept symbolic: two signatures
\* are equal iff key, algorithm and payload are.
Sign(alg, payload, key) == [alg |-> alg, payload |-> payload, key |-> key]

\* jwt.encode: a datetime exp becomes whole seconds, then header, payload and
\* signature are joined in three segments.
jwt_encode(claims, key, algorithm) ==
    LET payload == IF "exp" \in DOMAIN claims
                   THEN DictUpdate(claims, "exp", Timegm(claims["exp"]))
                   ELSE claims
    IN  [segments |-> 3, alg |-> algorithm, payload |-> payload,
         sig |-> Sign(algorithm, payload, key)]

IsJWTError(exc) == exc \in {"JWTError", "ExpiredSignatureError", "JWTClaimsError"}

\* jwt.decode(token, key, algorithms) at instant t: the segments, the header's
\* algorithm, the signature, then the exp claim against the clock in seconds.
jwt_decode(token, key, algorithms, t) ==
    IF token.segments # 3
    THEN Raise("JWTError", 500, "Not enough segments")
    ELSE IF token.alg \notin algorithms
    THEN Raise("JWTError", 500, "The specified alg value is not allowed")
    ELSE IF token.sig # Sign(token.alg, token.payload, key)
    THEN Raise("JWTError", 500, "Signature verification failed.")
    ELSE IF "exp" \in DOMAIN token.payload /\ token.payload["exp"] < Timegm(t)
    THEN Raise("ExpiredSignatureError", 500, "Signature has expired.")
    ELSE Return(token.payload)

\* What a client sends when it holds no token of the application.
GarbageToken ==
    [segments |-> 1, alg |-> "", payload |-> EmptyDict,
     sig |-> Sign("", EmptyDict, "")]

----------------------------------------------------------------------------
(* auth.py: issuing                                                        *)

\* data.copy(): a new dict with the same items.
DictCopy(d) == [k \in DOMAIN d |-> d[k]]

\* Each of the two yields the token and what the caller's mapping holds after
\* the call: update() changes to_encode, which is the copy, not data.

\* to_encode is data itself: update() writes exp into the caller's mapping.
create_access_token_no_copy(data, t) ==
    LET expire == t + ACCESS_TOKEN_EXPIRE_MINUTES * Minute
        to_encode == DictUpdate(data, "exp", expire)
    IN  [token |-> jwt_encode(to_encode, SECRET_KEY, ALGORITHM),
         data |-> to_encode]

create_access_token(data, t) ==
    LET expire == t + ACCESS_TOKEN_EXPIRE_MINUTES * Minute
        to_encode == DictUpdate(DictCopy(data), "exp", expire)
    IN  [token |-> jwt_encode(to_encode, SECRET_KEY, ALGORITHM),
         data |-> data]

create_refresh_token(data, t) ==
    LET expire == t + REFRESH_TOKEN_EXPIRE_DAYS * Day
        to_encode == DictUpdate(DictCopy(data), "exp", expire)
    IN  [token |-> jwt_encode(to_encode, REFRESH_SECRET_KEY, ALGORITHM),
         data |-> data]

create_verification_token(email, t) ==
    LET expire == t + VERIFICATION_TOKEN_EXPIRE_MINUTES * Minute
        to_encode == DictUpdate(DictUpdate(EmptyDict, "sub", email),
                                "exp", expire)
    IN  jwt_encode(to_encode, SECRET_KEY, ALGORITHM)

create_password_reset_token(email, t) ==
    LET expire == t + RESET_TOKEN_EXPIRE_MINUTES * Minute
        payload == DictUpdate(DictUpdate(EmptyDict, "sub", email),
                              "exp", expire)
    IN  jwt_encode(payload, SECRET_KEY, ALGORITHM)

----------------------------------------------------------------------------
(* auth.py: verifying                                                      *)

\* Names the module jose.jwt defines or imports; an attribute lookup of any
\* other name raises AttributeError.
jose_jwt_names ==
    {"encode", "decode", "get_unverified_header", "get_unverified_claims",
     "JWTError", "JWTClaimsError", "ExpiredSignatureError", "JWSError"}

\* "except <module>.<name>:" is evaluated when an exception reaches it: the
\* lookup itself may raise, and that exception replaces the one in flight.
ExceptClause(name, raised, handled) ==
    IF name \notin jose_jwt_names
    THEN Raise("AttributeError", 500,
               "module 'jose.jwt' has no attribute 'PyJWTError'")
    ELSE IF IsJWTError(raised.exc) THEN handled ELSE raised

verify_token(token, t) ==
    LET r == jwt_decode(token, SECRET_KEY, {ALGORITHM}, t)
    IN  IF r.kind = "return"
        THEN r
        ELSE ExceptClause("PyJWTError", r, HTTPException(401, "Invalid token"))

verify_verification_token(token, t) ==
    LET r == jwt_decode(token, SECRET_KEY, {ALGORITHM}, t)
    IN  IF r.kind = "return"
        THEN Return(DictGet(r.value, "sub"))
        ELSE Return(None)

\* str(id), as a subject claim carries an identifier.
IdStr(id) == CASE id = 1 -> "1" [] id = 2 -> "2" [] id = 3 -> "3" [] OTHER -> ""

\* User.get(user_id): the row with that identifier, or None.
UserGet(db, user_id) ==
    IF \E u \in db : IdStr(u.id) = user_id
    THEN CHOOSE u \in db : IdStr(u.id) = user_id
    ELSE NoRow

\* The lookup's result is returned without the None check.
get_current_user_no_lookup_check(token, t, db) ==
    LET r == jwt_decode(token, SECRET_KEY, {ALGORITHM}, t)
    IN  IF r.kind = "raise"
        THEN HTTPException(401, "Invalid token")
        ELSE IF DictGet(r.value, "sub") = None
        THEN HTTPException(401, "Invalid token")
        ELSE Return(UserGet(db, DictGet(r.value, "sub")))

\* The HTTPExceptions raised inside the try are not JWTErrors: they leave
\* the function as they are.
get_current_user(token, t, db) ==
    LET r == jwt_decode(token, SECRET_KEY, {ALGORITHM}, t)
    IN  IF r.kind = "raise"
        THEN HTTPException(401, "Invalid token")
        ELSE LET user_id == DictGet(r.value, "sub")
             IN  IF user_id = None
                 THEN HTTPException(401, "Invalid token")
                 ELSE LET user == UserGet(db, user_id)
                      IN  IF user = NoRow
                          THEN HTTPException(401, "User not found")
                          ELSE Return(user)

\* "x in list"
InList(x, list) == \E i \in 1..Len(list) : list[i] = x

\* "in" for "not in".
role_checker_inverted(required_roles, user) ==
    IF InList(user.role, required_roles)
    THEN HTTPException(403, "Access denied")
    ELSE Return(user)

\* require_role(required_roles) returns this closure.
role_checker(required_roles, user) ==
    IF ~InList(user.role, required_roles)
    THEN HTTPException(403, "Access denied")
    ELSE Return(user)

----------------------------------------------------------------------------
(* Requests against the token helpers                                      *)

SubChoices == {"1", "2", "3"}

Absent == "absent"

\* The mappings a caller passes to create_access_token / create_refresh_token:
\* with or without a subject, with or without an exp of its own, with or
\* without a further claim.
ClaimsData ==
    {LET a == IF s = Absent THEN EmptyDict ELSE DictUpdate(EmptyDict, "sub", s)
         b == IF e = Absent THEN a ELSE DictUpdate(a, "exp", 0)
     IN  IF c = Absent THEN b ELSE DictUpdate(b, "scope", c) :
     s \in SubChoices \cup {Absent}, e \in {Absent, "given"},
     c \in {Absent, "cart"}}

RoleLists == {<<>>, <<"admin">>, <<"user">>, <<"admin", "user">>}

NoBearer ==
    [purpose |-> "none", token |-> GarbageToken, iat |-> 0, ttl |-> 0,
     data |-> EmptyDict, intact |-> TRUE]

Issued(purpose, token, ttl, data) ==
    [purpose |-> purpose, token |-> token, iat |-> now, ttl |-> ttl,
     data |-> data, intact |-> TRUE]

Tick ==
    /\ now < MaxTime
    /\ now' = now + 1
    /\ resp' = NoCall
    /\ UNCHANGED <<store, nextId, plain, sess, bearer>>

CreateAccessToken ==
    /\ \E data \in ClaimsData :
          LET out == create_access_token(data, now)
          IN  /\ bearer' = Issued("access", out.token,
                                  ACCESS_TOKEN_EXPIRE_MINUTES * Minute, data)
              /\ resp' = [op |-> "create_access_token", data |-> data,
                          data_after |-> out.data,
                          result |-> Return(out.token)]
    /\ UNCHANGED <<store, nextId, plain, sess, now>>

CreateRefreshToken ==
    /\ \E data \in ClaimsData :
          LET out == create_refresh_token(data, now)
          IN  /\ bearer' = Issued("refresh", out.token,
                                  REFRESH_TOKEN_EXPIRE_DAYS * Day, data)
              /\ resp' = [op |-> "create_refresh_token", data |-> data,
                          data_after |-> out.data,
                          result |-> Return(out.token)]
    /\ UNCHANGED <<store, nextId, plain, sess, now>>

CreateVerificationToken ==
    /\ \E email \in Emails :
          LET token == create_verification_token(email, now)
          IN  /\ bearer' = Issued("verification", token,
                                  VERIFICATION_TOKEN_EXPIRE_MINUTES * Minute,
                                  DictUpdate(EmptyDict, "sub", email))
              /\ resp' = [op |-> "create_verification_token",
                          result |-> Return(token)]
    /\ UNCHANGED <<store, nextId, plain, sess, now>>

CreatePasswordResetToken ==
    /\ \E email \in Emails :
          LET token == create_password_reset_token(email, now)
          IN  /\ bearer' = Issued("reset", token,
                                  RESET_TOKEN_EXPIRE_MINUTES * Minute,
                                  DictUpdate(EmptyDict, "sub", email))
              /\ resp' = [op |-> "create_password_reset_token",
                          result |-> Return(token)]
    /\ UNCHANGED <<store, nextId, plain, sess, now>>

\* The client flips a character of the signature segment.
FlipSignature ==
    /\ bearer.purpose # "none"
    /\ bearer.intact
    /\ bearer' = [bearer EXCEPT !.intact = FALSE,
                                !.token.sig.key = "flipped"]
    /\ resp' = NoCall
    /\ UNCHANGED <<store, nextId, plain, sess, now>>

VerifyToken ==
    /\ resp' = [op |-> "verify_token",
                result |-> verify_token(bearer.token, now)]
    /\ UNCHANGED <<store, nextId, plain, sess, now, bearer>>

VerifyVerificationToken ==
    /\ resp' = [op |-> "verify_verification_token",
                result |-> verify_verification_token(bearer.token, now)]
    /\ UNCHANGED <<store, nextId, plain, sess, now, bearer>>

GetCurrentUser ==
    /\ resp' = [op |-> "get_current_user",
                result |-> get_current_user(bearer.token, now, store)]
    /\ UNCHANGED <<store, nextId, plain, sess, now, bearer>>

\* A route guarded by Depends(require_role(required_roles)): the guard runs
\* on the principal get_current_user resolved, and not at all when that fails.
RoleChecker ==
    /\ \E required_roles \in RoleLists :
          LET user == get_current_user(bearer.token, now, store)
          IN  resp' = [op |-> "role_checker",
                       required_roles |-> required_roles,
                       user |-> user,
                       result |-> IF user.kind = "raise"
                                  THEN user
                                  ELSE role_checker(required_roles,
                                                    user.value)]
    /\ UNCHANGED <<store, nextId, plain, sess, now, bearer>>

----------------------------------------------------------------------------
(* Specifications                                                          *)

InitStore ==
    /\ store = {}
    /\ nextId = 1
    /\ plain = {}
    /\ sess = [p \in Procs |-> IdleSession]
    /\ now = 0
    /\ bearer = NoBearer
    /\ resp = NoCall

NextStore == (\E p \in Procs : create_user(p)) \/ VerifyPassword

\* Registration and login: the store starts empty.
SpecStore == InitStore /\ [][NextStore]_vars

\* The users table as two registrations and a role update leave it.
AuthStore ==
    {[Inserted(User("ann@x", "F", "L",
                    ContextHash(crud_pwd_context, <<"a">>, "s1"), "555"), 1)
        EXCEPT !.role = "admin"],
     Inserted(User("bob@x", "F", "L",
                   ContextHash(crud_pwd_context, <<"a", "b", "c">>, "s2"),
                   "555"), 2)}

InitToken ==
    /\ store = AuthStore
    /\ nextId = 3
    /\ plain = {[id |-> 1, password |-> <<"a">>],
                [id |-> 2, password |-> <<"a", "b", "c">>]}
    /\ sess = [p \in Procs |-> IdleSession]
    /\ now = 0
    /\ bearer = NoBearer
    /\ resp = NoCall

NextToken ==
    \/ Tick
    \/ CreateAccessToken
    \/ CreateRefreshToken
    \/ CreateVerificationToken
    \/ CreatePasswordResetToken
    \/ FlipSignature
    \/ VerifyToken
    \/ VerifyVerificationToken
    \/ GetCurrentUser
    \/ RoleChecker

\* The token helpers, against a store that holds two users.
SpecToken == InitToken /\ [][NextToken]_vars

----------------------------------------------------------------------------
(* Properties                                                              *)

Committed(p) == sess[p].pc \in {"L16", "L17", "done"}

Finished(p) == sess[p].pc \in {"done", "raised"}

\* C1: registering an email the store already holds fails with the
\* duplicate-email error and writes nothing: the store holds one row per
\* email, one row per registration that passed its commit and none for one
\* that failed; a finished registration returns the stored row of its email
\* or raises, and two registrations of one email never both return a user.
C1_DuplicateEmailRejected ==
    /\ \A u, v \in store : u.email = v.email => u = v
    /\ Cardinality(store) = Cardinality({p \in Procs : Committed(p)})
    /\ \A p \in Procs :
          /\ sess[p].pc = "done" =>
                /\ sess[p].ret.kind = "return"
                /\ sess[p].ret.value \in store
                /\ sess[p].ret.value.email = sess[p].user.email
          /\ sess[p].pc = "raised" =>
                /\ sess[p].ret.kind = "raise"
                /\ sess[p].ret.exc = "IntegrityError"
    /\ \A p, q \in Procs :
          (p # q /\ Finished(p) /\ Finished(q)
                 /\ sess[p].user.email = sess[q].user.email)
          => ~(sess[p].ret.kind = "return" /\ sess[q].ret.kind = "return")

\* A second registration of an email has failed after the first returned.
C1_Witness ==
    \E p, q \in Procs :
        /\ sess[p].pc = "done" /\ sess[p].ret.kind = "return"
        /\ sess[q].pc = "raised"
        /\ sess[q].user.email = sess[p].user.email
        /\ Cardinality(store) = 1

PlainOf(u) == (CHOOSE g \in plain : g.id = u.id).password

\* C9 as stated: every stored row holds a digest, never the plaintext p it
\* was created with; verify_password(p, digest) is true and
\* verify_password(q, digest) is false for every q different from p.
C9_AsStated ==
    \A u \in store :
        /\ u.password_hash # PlainOf(u)
        /\ verify_password(PlainOf(u), u.password_hash) = Return(TRUE)
        /\ \A q \in Passwords \ {PlainOf(u)} :
              verify_password(q, u.password_hash) = Return(FALSE)

\* C9 as amended: every stored row holds a digest, never the plaintext p;
\* verify_password(p, digest) is true, and verify_password(q, digest) is
\* false for every q that differs from p within the bytes bcrypt reads.
C9_StoredHash ==
    \A u \in store :
        /\ u.password_hash # PlainOf(u)
        /\ verify_password(PlainOf(u), u.password_hash) = Return(TRUE)
        /\ \A q \in Passwords :
              BcryptTruncate(q) # BcryptTruncate(PlainOf(u))
              => verify_password(q, u.password_hash) = Return(FALSE)

\* A login has tried a wrong password against a stored digest of a password
\* longer than bcrypt reads, and was refused.
C9_Witness ==
    /\ resp.op = "verify_password"
    /\ \E u \in store :
          /\ u.password_hash = resp.hashed_password
          /\ Len(PlainOf(u)) > BcryptMaxBytes
          /\ resp.plain_password # PlainOf(u)
    /\ resp.result = Return(FALSE)

IsDigestOf(hash, secret) == \E salt \in Salts : hash = hash_password(secret, salt)

\* C8: verify_password returns, and never raises, whatever the digest; for
\* a digest that is no digest of the plaintext, malformed ones included, it
\* returns false.
C8_VerifyPasswordNeverRaises ==
    resp.op = "verify_password"
    => /\ resp.result.kind = "return"
       /\ ~IsDigestOf(resp.hashed_password, resp.plain_password)
          => resp.result = Return(FALSE)

----------------------------------------------------------------------------

PrimaryPurposes == {"access", "verification", "reset"}

\* The instant the bearer token's ttl ends.
Expiry == bearer.iat + bearer.ttl

\* C2: a token a create_* function issued, unaltered and within its ttl, is
\* rejected by every verifier of another purpose: verify_token and
\* get_current_user raise unless it is an access token, and
\* verify_verification_token returns None unless it is a verification token.
C2_PurposeIsolation ==
    (bearer.purpose # "none" /\ bearer.intact /\ now <= Expiry)
    => /\ (bearer.purpose # "access"
           /\ resp.op \in {"verify_token", "get_current_user"})
          => resp.result.kind = "raise"
       /\ (bearer.purpose # "verification"
           /\ resp.op = "verify_verification_token")
          => resp.result = Return(None)

\* C3: every failure of get_current_user is the same response, status and
\* detail (that of a bad signature).
C3_UniformFailure ==
    (resp.op = "get_current_user" /\ resp.result.kind = "raise")
    => resp.result = HTTPException(401, "Invalid token")

\* C4: verify_token ends in the 401 "Invalid token" error whenever the token
\* is past its ttl, was signed with another secret, or was tampered with.
C4_InvalidTokenRejected ==
    (/\ resp.op = "verify_token"
     /\ \/ now > Expiry
        \/ ~bearer.intact
        \/ bearer.purpose \notin PrimaryPurposes)
    => resp.result = HTTPException(401, "Invalid token")

\* The bearer token is one the application signed with the primary secret,
\* unaltered, and its exp (whole seconds) has not passed.
ValidPrimary ==
    /\ bearer.purpose \in PrimaryPurposes
    /\ bearer.intact
    /\ Timegm(now) <= Timegm(Expiry)

Resolvable ==
    /\ ValidPrimary
    /\ "sub" \in DOMAIN bearer.data
    /\ \E u \in store : IdStr(u.id) = bearer.data["sub"]

\* C5: get_current_user returns a principal iff the token is an unexpired
\* token signed with the primary secret whose subject is the identifier of
\* a stored user, and then returns that user; in every other case it ends
\* in a 401 HTTPException.
C5_IdentityResolver ==
    resp.op = "get_current_user"
    => IF Resolvable
       THEN /\ resp.result.kind = "return"
            /\ resp.result.value \in store
            /\ IdStr(resp.result.value.id) = bearer.data["sub"]
       ELSE /\ resp.result.kind = "raise"
            /\ resp.result.exc = "HTTPException"
            /\ resp.result.status_code = 401

\* An access token whose subject is no stored user was refused with 401.
C5_Witness ==
    /\ resp.op = "get_current_user"
    /\ ValidPrimary
    /\ bearer.purpose = "access"
    /\ "sub" \in DOMAIN bearer.data
    /\ \A u \in store : IdStr(u.id) # bearer.data["sub"]
    /\ resp.result.kind = "raise"
    /\ resp.result.status_code = 401

ListMembers(list) == {list[i] : i \in 1..Len(list)}

\* C6: a step of the guard on a resolved principal returns that principal
\* unchanged when its role is in required_roles, ends in 403 otherwise (the
\* empty list included), and changes nothing but the response.
C6_AccessGuard ==
    [][(resp'.op = "role_checker" /\ resp'.user.kind = "return")
       => /\ resp'.result =
                IF resp'.user.value.role \in ListMembers(resp'.required_roles)
                THEN Return(resp'.user.value)
                ELSE HTTPException(403, "Access denied")
          /\ resp'.user.value \in store
          /\ UNCHANGED <<store, nextId, plain, sess, now, bearer>>]_vars

\* The guard let an admin through a route open to admins and users.
C6_Witness ==
    /\ resp.op = "role_checker"
    /\ resp.required_roles = <<"admin", "user">>
    /\ resp.user.kind = "return"
    /\ resp.user.value.role = "admin"
    /\ resp.result = Return(resp.user.value)

====
